---- MODULE Spec2Model ----
(***************************************************************************)
(* A model of the static-site rendering engine of vite-ssg:                *)
(*   src/src/node/utils.ts         routesToPaths                           *)
(*   src/src/node/render.ts        render (the supervisor)                 *)
(*   src/src/node/renderWorker.ts  the page-render worker unit             *)
(*                                                                         *)
(* Strings are sequences of tokens.  A token is one character ("/", ":",   *)
(* "*", ".", "a") or a fixed word of the source that no operation looks    *)
(* inside ("index", ".html", "out").                                       *)
(***************************************************************************)
EXTENDS Integers, Sequences, FiniteSets, TLC

\* ------------------------------------------------------------------ bounds
\* most nodes of a route tree (SpecRoutes)
MaxNodes == 3
\* longest route string handed to the worker's file-name computation (SpecFile)
MaxRouteLen == 4
\* the most CPUs, and the most free memory in MiB, a host reports
MaxCpus == 8
MaxFreeMiB == 2400
\* longest index template and longest serialized initial state (SpecHtml)
MaxTplLen == 3
MaxStateLen == 2

\* ----------------------------------------------------------------- strings
Empty == <<>>
Slash == <<"/">>

Range(s) == {s[i] : i \in DOMAIN s}

\* String.prototype.startsWith('/')
StartsWithSlash(s) == Len(s) > 0 /\ s[1] = "/"

\* String.prototype.endsWith('/')
EndsWithSlash(s) == Len(s) > 0 /\ s[Len(s)] = "/"

\* String.prototype.includes(ch)
Includes(s, ch) == ch \in Range(s)

\* s.replace(/^\//g, ''): the anchored pattern matches once, so one leading
\* slash is removed
StripLeadingSlash(s) == IF StartsWithSlash(s) THEN Tail(s) ELSE s

\* s.replace(/\/$/g, ''): the anchored pattern matches once, so one trailing
\* slash is removed
StripTrailingSlash(s) == IF EndsWithSlash(s) THEN SubSeq(s, 1, Len(s) - 1) ELSE s

\* ------------------------------------------------------- node:path (posix)
Dot == <<".">>
DotDot == <<".", ".">>

RECURSIVE SplitAcc(_, _, _)
SplitAcc(s, cur, acc) ==
  IF s = Empty THEN Append(acc, cur)
  ELSE IF Head(s) = "/" THEN SplitAcc(Tail(s), Empty, Append(acc, cur))
  ELSE SplitAcc(Tail(s), Append(cur, Head(s)), acc)

\* s.split('/')
Split(s) == SplitAcc(s, Empty, <<>>)

\* normalizeString: drops empty and '.' segments, resolves '..'
RECURSIVE NormalizeSegs(_, _, _)
NormalizeSegs(segs, acc, isAbs) ==
  IF segs = <<>> THEN acc
  ELSE LET seg == Head(segs)
           rest == Tail(segs)
       IN IF seg = Empty \/ seg = Dot THEN NormalizeSegs(rest, acc, isAbs)
          ELSE IF seg = DotDot
            THEN IF Len(acc) > 0 /\ acc[Len(acc)] # DotDot
                   THEN NormalizeSegs(rest, SubSeq(acc, 1, Len(acc) - 1), isAbs)
                 ELSE IF isAbs THEN NormalizeSegs(rest, acc, isAbs)
                 ELSE NormalizeSegs(rest, Append(acc, seg), isAbs)
          ELSE NormalizeSegs(rest, Append(acc, seg), isAbs)

RECURSIVE JoinSegs(_)
JoinSegs(segs) ==
  IF segs = <<>> THEN Empty
  ELSE IF Len(segs) = 1 THEN segs[1]
  ELSE segs[1] \o Slash \o JoinSegs(Tail(segs))

\* path.normalize
Normalize(s) ==
  LET isAbs == StartsWithSlash(s)
      trailing == EndsWithSlash(s)
      body == JoinSegs(NormalizeSegs(Split(s), <<>>, isAbs))
  IN IF s = Empty THEN Dot
     ELSE IF body = Empty
       THEN (IF isAbs THEN Slash ELSE IF trailing THEN Dot \o Slash ELSE Dot)
     ELSE (IF isAbs THEN Slash ELSE Empty) \o body \o (IF trailing THEN Slash ELSE Empty)

\* path.join(a, b): the non-empty arguments joined by '/', then normalized
Join(a, b) ==
  IF a = Empty /\ b = Empty THEN Dot
  ELSE IF a = Empty THEN Normalize(b)
  ELSE IF b = Empty THEN Normalize(a)
  ELSE Normalize(a \o Slash \o b)

\* ----------------------------------------------- insertion-ordered Set<string>
\* Set.prototype.add on a Set kept as the sequence of its insertion order
SetAdd(paths, p) == IF p \in Range(paths) THEN paths ELSE Append(paths, p)

RECURSIVE UniqAcc(_, _)
UniqAcc(arr, acc) ==
  IF arr = <<>> THEN acc ELSE UniqAcc(Tail(arr), SetAdd(acc, Head(arr)))

\* Array.from(new Set(arr))
Uniq(arr) == UniqAcc(arr, <<>>)

\* ------------------------------------------------------------ routesToPaths
\* the body of the for loop of getPaths for one route: the local `path`
RoutePath(route, prefix) ==
  IF route.path # Empty
    THEN IF prefix # Empty /\ ~StartsWithSlash(route.path)
           THEN prefix \o Slash \o route.path
           ELSE route.path
    ELSE route.path

\* getPaths(routes, prefix): `prefix` is the argument after line 15 stripped
\* its trailing slash; `paths` is the Set the closure adds to
RECURSIVE getPathsLoop(_, _, _)
getPathsLoop(routes, prefix, paths) ==
  IF routes = <<>> THEN paths
  ELSE LET route == Head(routes)
           path == RoutePath(route, prefix)
           added == IF route.path # Empty THEN SetAdd(paths, path) ELSE paths
           below == getPathsLoop(route.children, StripTrailingSlash(path), added)
       IN getPathsLoop(Tail(routes), prefix, below)

getPaths(routes, prefix, paths) == getPathsLoop(routes, StripTrailingSlash(prefix), paths)

\* a variant of routesToPaths without the default for a missing route table
routesToPathsNoRoot(routes) ==
  IF ~routes.defined THEN <<>> ELSE getPaths(routes.list, Empty, <<>>)

\* routes is [defined |-> BOOLEAN, list |-> the route records]
routesToPaths(routes) ==
  IF ~routes.defined THEN <<Slash>> ELSE getPaths(routes.list, Empty, <<>>)

\* a variant of DefaultIncludedRoutes that forgets the wildcard marker
RECURSIVE IncludedRoutesNoWildcard(_)
IncludedRoutesNoWildcard(paths) ==
  IF paths = <<>> THEN <<>>
  ELSE (IF ~Includes(Head(paths), ":") THEN <<Head(paths)>> ELSE <<>>)
         \o IncludedRoutesNoWildcard(Tail(paths))

\* ------------------------------------------------------ render.ts, 20 to 23
\* paths.filter(i => !i.includes(':') && !i.includes('*'))
RECURSIVE DefaultIncludedRoutes(_)
DefaultIncludedRoutes(paths) ==
  IF paths = <<>> THEN <<>>
  ELSE (IF ~Includes(Head(paths), ":") /\ ~Includes(Head(paths), "*")
          THEN <<Head(paths)>> ELSE <<>>) \o DefaultIncludedRoutes(Tail(paths))

\* the includedRoutes option: the default, or a function the user supplies
IncludedRoutesFns == {"default", "identity", "none", "twice"}

includedRoutes(fn, paths) ==
  CASE fn = "default" -> DefaultIncludedRoutes(paths)
    [] fn = "identity" -> paths
    [] fn = "none" -> <<>>
    [] fn = "twice" -> paths \o paths

\* render.ts 58 to 63
ResolveRoutePaths(routes, includeAllRoutes, fn) ==
  Uniq(IF includeAllRoutes
         THEN routesToPaths(routes)
         ELSE includedRoutes(fn, routesToPaths(routes)))

\* ------------------------------------------------ renderWorker.ts, 28 to 31
Index == <<"index">>
DotHtml == <<".html">>
IndexHtml == <<"index", ".html">>

\* a variant of relativeRouteFile that does not name the index file of a
\* route ending in a slash
relativeRouteFileNoIndex(route) == StripLeadingSlash(route) \o DotHtml

relativeRouteFile(route) ==
  StripLeadingSlash(IF EndsWithSlash(route) THEN route \o Index ELSE route) \o DotHtml

filename(route, dirStyle) ==
  IF dirStyle = "nested"
    THEN Join(StripLeadingSlash(route), IndexHtml)
    ELSE relativeRouteFile(route)

\* `out`, the output directory files are written under (renderWorker.ts 70)
OutDir == <<"/", "out">>


\* ---------------------------------------------------- render.ts, 95 to 101
Min(a, b) == IF a < b THEN a ELSE b
Max(a, b) == IF a > b THEN a ELSE b

\* 1.1 * 1024 ** 3 bytes, in tenths of a MiB (free memory is counted in MiB)
WorkerMemTenthsMiB == 11264

\* a variant of PoolSize that gives every CPU a worker
PoolSizeAllCpus(inspectorUrl, cpus, freeMiB) ==
  IF inspectorUrl THEN 1
  ELSE Max(1, Min(cpus, (10 * freeMiB) \div WorkerMemTenthsMiB))

\* inspector.url() ? 1 : Math.max(1, Math.floor(Math.min(cpus / 2, freemem / 1.1GiB)))
PoolSize(inspectorUrl, cpus, freeMiB) ==
  IF inspectorUrl THEN 1
  ELSE Max(1, Min(cpus \div 2, (10 * freeMiB) \div WorkerMemTenthsMiB))

\* ------------------------------------------------ renderWorker.ts, 87 to 96
\* HTML is a sequence of tokens; these stand for the literals of renderHTML
Mount == "<div id='app'></div>"
MountOpen == "<div id='app' data-server-rendered='true'>"
MountClose == "</div>"
ScriptOpen == "<script>window.__INITIAL_STATE__="
ScriptClose == "</script>"

\* the initial state createApp returns: undefined, or a string
NoState == [defined |-> FALSE, text |-> <<>>]
State(text) == [defined |-> TRUE, text |-> text]

\* `initialState ? ... : ''`: undefined and the empty string are falsy
Truthy(initialState) == initialState.defined /\ initialState.text # <<>>

\* String.prototype.indexOf, counted from 1; 0 when tok does not occur
IndexOf(s, tok) ==
  IF \E i \in DOMAIN s : s[i] = tok
  THEN CHOOSE i \in DOMAIN s : s[i] = tok /\ \A j \in 1..(i - 1) : s[j] # tok
  ELSE 0

\* what String.prototype.replace makes of a replacement string: "$$" is a
\* dollar sign, "$&" the match, "$`" what precedes it, "$'" what follows it
RECURSIVE Expand(_, _, _, _)
Expand(repl, matched, before, after) ==
  IF repl = <<>> THEN <<>>
  ELSE LET h == Head(repl)
           e == CASE h = "$$" -> <<"$">>
                  [] h = "$&" -> <<matched>>
                  [] h = "$`" -> before
                  [] h = "$'" -> after
                  [] OTHER -> <<h>>
       IN e \o Expand(Tail(repl), matched, before, after)

\* s.replace(pattern, replacement) with a string pattern: the first
\* occurrence only, and s itself when there is none
StringReplace(s, pattern, replacement) ==
  LET i == IndexOf(s, pattern)
  IN IF i = 0 THEN s
     ELSE LET before == SubSeq(s, 1, i - 1)
              after == SubSeq(s, i + 1, Len(s))
          IN before \o Expand(replacement, pattern, before, after) \o after

stateScript(initialState) ==
  IF Truthy(initialState)
  THEN <<ScriptOpen>> \o initialState.text \o <<ScriptClose>>
  ELSE <<>>

renderHTML(html, appHTML, initialState) ==
  StringReplace(html, Mount,
                <<MountOpen>> \o appHTML \o <<MountClose>> \o stateScript(initialState))

\* the WorkerContext of renderWorker.ts 13 to 22 that render.ts 105 to 114
\* builds: the fields the worker's result depends on
Context(dirStyle, html) == [dirStyle |-> dirStyle, out |-> OutDir, indexHTML |-> html]

\* ------------------------------------------------------------------- state
VARIABLES
  routes,        \* the route table createApp(false) returns
  opts,          \* the resolved ViteSSGOptions render() reads
  host,          \* what inspector.url(), os.cpus() and os.freemem() report
  indexHTML,     \* the content of the built index.html (render.ts 87)
  app,           \* the application: its markup, initial state, and whether it has a router
  flatPaths,     \* what routesToPaths(routes) returned (render.ts 59, 60)
  pc,            \* where render() is
  failedAt,      \* the step whose failure rejected render(), or "none"
  routesPaths,   \* render.ts 58 to 63
  maxThreads,    \* the pool's size; 0 until the pool is created
  tasks,         \* one record per pool.run() of render.ts 104
  files,         \* the paths fs.writeFile has written
  pwa,           \* whether config.plugins holds a vite-plugin-pwa with generateSW
  swCalls,       \* calls of pwaPlugin.generateSW()
  swDone,        \* generateSW() has resolved
  finishedCalls, \* calls of onFinished()
  finishedDone,  \* onFinished() has resolved
  watchdog,      \* the timer of render.ts 132 is armed
  handleOpen,    \* something besides render() still holds the event loop open
  proc,          \* the process: "running" or how it exited
  exitCode       \* the status the process exited with; -1 while it runs

vars == <<routes, opts, host, indexHTML, app, flatPaths, pc, failedAt, routesPaths, maxThreads, tasks, files, pwa,
          swCalls, swDone, finishedCalls, finishedDone, watchdog, handleOpen, proc, exitCode>>

\* --------------------------------------------------------- the route tables
Node(p, c) == [path |-> p, children |-> c]

\* the path attribute of a route record; Empty is a record without a path
NodePaths ==
  { Empty, <<"/">>, <<"/", "a">>, <<"a">>, <<"/", "a", "/">>, <<"/", ":">>, <<"*">> }

\* a route table in preorder: node i has depth d[i] and path p[i]
PreorderShapes(n) ==
  { d \in [1..n -> 0..(n - 1)] :
      /\ d[1] = 0
      /\ \A i \in 1..(n - 1) : d[i + 1] <= d[i] + 1 }

\* the length of the longest prefix of ds whose depths are all deeper than d
RECURSIVE Below(_, _)
Below(ds, d) ==
  IF ds = <<>> \/ ds[1].depth <= d THEN 0 ELSE 1 + Below(Tail(ds), d)

RECURSIVE Forest(_, _)
Forest(nodes, d) ==
  IF nodes = <<>> THEN <<>>
  ELSE LET rest == Tail(nodes)
           k == Below(rest, d)
       IN <<Node(nodes[1].path, Forest(SubSeq(rest, 1, k), d + 1))>>
            \o Forest(SubSeq(rest, k + 1, Len(rest)), d)

RouteLists(n) ==
  { Forest([i \in 1..n |-> [depth |-> d[i], path |-> p[i]]], 0) :
      d \in PreorderShapes(n), p \in [1..n -> NodePaths] }

Undefined == [defined |-> FALSE, list |-> <<>>]
Defined(l) == [defined |-> TRUE, list |-> l]

\* the route tables of n nodes
RouteTables(n) == IF n = 0 THEN {Defined(<<>>)} ELSE {Defined(l) : l \in RouteLists(n)}

\* the route tables of the supervisor's runs
MainRoutes ==
  { Undefined,
    Defined(<<Node(<<"/", "a">>, <<>>), Node(<<"/", "a", "/">>, <<>>),
              Node(<<"/", ":">>, <<>>)>>) }

AllOpts ==
  [ includeAllRoutes : BOOLEAN, includedRoutes : IncludedRoutesFns,
    dirStyle : {"flat", "nested"}, onFinished : BOOLEAN ]

\* the options of the supervisor's runs
MainOpts ==
  [ includeAllRoutes : BOOLEAN, includedRoutes : {"default", "none"},
    dirStyle : {"flat", "nested"}, onFinished : BOOLEAN ]

\* the hosts of the supervisor's runs: with and without a debugger, enough
\* CPUs and memory for two workers
MainHosts == [ inspectorUrl : BOOLEAN, cpus : {4}, freeMiB : {4096} ]

\* one host and one application, for the specifications of a single step
OneHost == [inspectorUrl |-> FALSE, cpus |-> 4, freeMiB |-> 4096]
OneApp == [html |-> <<"<p>">>, state |-> State(<<"s">>), router |-> FALSE]

\* the index template and the application of the supervisor's runs
MainIndexHTML == <<"<body>", Mount, "</body>">>
MainApps == [ html : {<<"<p>">>}, state : {State(<<"s">>)}, router : BOOLEAN ]

\* ------------------------------------------------------------------- tasks
NoFile == <<>>

NewTask(route, ctx) ==
  [ route |-> route, ctx |-> ctx, st |-> "queued", fname |-> NoFile, hasApp |-> FALSE,
    router |-> FALSE, html |-> <<>>, logged |-> FALSE, wrote |-> FALSE, disposed |-> FALSE ]

Settled(t) == t.st \in {"fulfilled", "rejected"}
Occupies(t) == t.st \notin {"queued", "fulfilled", "rejected"}

\* steps whose await may never settle (application code); the pending
\* operation keeps its worker thread, and so the process, alive
HangSteps == {"createApp", "routerPush", "routerReady", "renderToString"}

\* steps that may throw an Error; computing the file name, splicing the
\* template (string operations) and the cleanup's deletes do not throw
ThrowSteps ==
  {"import", "createApp", "routerPush", "routerReady", "renderToString", "jsdom",
   "preload", "head", "serialize", "format", "ensureDir", "writeFile"}

\* steps that run application code, which may throw any value, also
\* undefined or null
AppSteps ==
  {"import", "createApp", "routerPush", "routerReady", "renderToString", "head"}

\* a variant of NextStep that renders without navigating to the route
NextStepNoNavigation(st, router) ==
  CASE st = "import" -> "filename"
    [] st = "filename" -> "createApp"
    [] st = "createApp" -> "renderToString"
    [] st = "routerPush" -> "routerReady"
    [] st = "routerReady" -> "renderToString"
    [] st = "renderToString" -> "renderHTML"
    [] st = "renderHTML" -> "jsdom"
    [] st = "jsdom" -> "preload"
    [] st = "preload" -> "head"
    [] st = "head" -> "serialize"
    [] st = "serialize" -> "format"
    [] st = "format" -> "ensureDir"
    [] st = "ensureDir" -> "writeFile"
    [] st = "writeFile" -> "cleanup"
    [] st = "cleanup" -> "fulfilled"

\* the step after st when it succeeds
NextStep(st, router) ==
  CASE st = "import" -> "filename"
    [] st = "filename" -> "createApp"
    [] st = "createApp" -> IF router THEN "routerPush" ELSE "renderToString"
    [] st = "routerPush" -> "routerReady"
    [] st = "routerReady" -> "renderToString"
    [] st = "renderToString" -> "renderHTML"
    [] st = "renderHTML" -> "jsdom"
    [] st = "jsdom" -> "preload"
    [] st = "preload" -> "head"
    [] st = "head" -> "serialize"
    [] st = "serialize" -> "format"
    [] st = "format" -> "ensureDir"
    [] st = "ensureDir" -> "writeFile"
    [] st = "writeFile" -> "cleanup"
    [] st = "cleanup" -> "fulfilled"

\* the catch block of renderWorker.ts 82 to 84, given the value thrown:
\* reading err.stack of undefined or null throws a TypeError out of the catch
CatchLogs(err) == err # "nullish"

\* ----------------------------------------------------------------- initial
InitWith(rs, os) ==
  /\ routes \in rs
  /\ opts \in os
  /\ host \in MainHosts
  /\ indexHTML = MainIndexHTML
  /\ app \in MainApps
  /\ flatPaths = <<>>
  /\ pc = "resolveConfig"
  /\ failedAt = "none"
  /\ routesPaths = <<>>
  /\ maxThreads = 0
  /\ tasks = <<>>
  /\ files = {}
  /\ pwa = "unknown"
  /\ swCalls = 0
  /\ swDone = FALSE
  /\ finishedCalls = 0
  /\ finishedDone = FALSE
  /\ watchdog = FALSE
  /\ handleOpen = FALSE
  /\ proc = "running"
  /\ exitCode = -1

Init == InitWith(MainRoutes, MainOpts)

\* ------------------------------------------- render(): resolving the context
\* the awaited steps of render.ts 28 to 86 that either return or throw
PlainSteps ==
  {"resolveConfig", "detectEntry", "resolveAlias", "importEntry", "createApp",
   "critters", "mock", "readManifest"}

AfterStep(step) ==
  CASE step = "resolveConfig" -> "detectEntry"
    [] step = "detectEntry" -> "resolveAlias"
    [] step = "resolveAlias" -> "importEntry"
    [] step = "importEntry" -> "createApp"
    [] step = "createApp" -> "routes"
    [] step = "routes" -> "critters"
    [] step = "critters" -> "mock"
    [] step = "mock" -> "readManifest"
    [] step = "readManifest" -> "readIndex"
    [] step = "readIndex" -> "createPool"
    [] step = "readIndexFallback" -> "createPool"

\* a variant of AfterThrow in which a manifest that cannot be read is ignored
AfterThrowIgnoringManifest(step) ==
  IF step = "readManifest" THEN AfterStep(step) ELSE "rejected"

\* a variant of AfterThrow in which a failing hook is caught and render()
\* carries on
AfterThrowCatchingHooks(step) ==
  CASE step = "generateSW" -> "onFinished"
    [] step = "onFinished" -> "arm"
    [] OTHER -> "rejected"

\* where render() is after `step` threw: an await that throws rejects render()
AfterThrow(step) == "rejected"

Reject(step) ==
  /\ pc' = AfterThrow(step)
  /\ failedAt' = step

\* a step of render.ts 28 to 56, 65 to 86 returns
CtxStep ==
  /\ proc = "running"
  /\ pc \in PlainSteps
  /\ pc' = AfterStep(pc)
  /\ UNCHANGED <<routes, opts, host, indexHTML, app, flatPaths, failedAt, routesPaths, maxThreads, tasks, files, pwa,
                 swCalls, swDone, finishedCalls, finishedDone, watchdog, handleOpen, proc, exitCode>>

\* a step of render.ts 28 to 56, 65 to 86 throws
CtxFail ==
  /\ proc = "running"
  /\ pc \in PlainSteps
  /\ Reject(pc)
  /\ UNCHANGED <<routes, opts, host, indexHTML, app, flatPaths, routesPaths, maxThreads, tasks, files, pwa,
                 swCalls, swDone, finishedCalls, finishedDone, watchdog, handleOpen, proc, exitCode>>

\* render.ts 58 to 63
ResolveRoutes ==
  /\ proc = "running"
  /\ pc = "routes"
  /\ flatPaths' = routesToPaths(routes)
  /\ routesPaths' = ResolveRoutePaths(routes, opts.includeAllRoutes, opts.includedRoutes)
  /\ pc' = AfterStep(pc)
  /\ UNCHANGED <<routes, opts, host, indexHTML, app, failedAt, maxThreads, tasks, files, pwa,
                 swCalls, swDone, finishedCalls, finishedDone, watchdog, handleOpen, proc, exitCode>>

\* render.ts 60: a user-supplied includedRoutes throws or rejects
IncludedRoutesFail ==
  /\ proc = "running"
  /\ pc = "routes"
  /\ ~opts.includeAllRoutes
  /\ opts.includedRoutes # "default"
  /\ Reject(pc)
  /\ UNCHANGED <<routes, opts, host, indexHTML, app, flatPaths, routesPaths, maxThreads, tasks, files, pwa,
                 swCalls, swDone, finishedCalls, finishedDone, watchdog, handleOpen, proc, exitCode>>

\* render.ts 87: the index template is read from the temporary directory
ReadIndex ==
  /\ proc = "running"
  /\ pc = "readIndex"
  /\ pc' = AfterStep(pc)
  /\ UNCHANGED <<routes, opts, host, indexHTML, app, flatPaths, failedAt, routesPaths, maxThreads, tasks, files, pwa,
                 swCalls, swDone, finishedCalls, finishedDone, watchdog, handleOpen, proc, exitCode>>

\* render.ts 88: that read fails and the .catch handler takes over
ReadIndexMiss ==
  /\ proc = "running"
  /\ pc = "readIndex"
  /\ pc' = "readIndexFallback"
  /\ UNCHANGED <<routes, opts, host, indexHTML, app, flatPaths, failedAt, routesPaths, maxThreads, tasks, files, pwa,
                 swCalls, swDone, finishedCalls, finishedDone, watchdog, handleOpen, proc, exitCode>>

\* render.ts 89 to 92: the template is read from the output directory,
\* rewritten and saved to the temporary directory
ReadIndexFallback ==
  /\ proc = "running"
  /\ pc = "readIndexFallback"
  /\ pc' = AfterStep(pc)
  /\ UNCHANGED <<routes, opts, host, indexHTML, app, flatPaths, failedAt, routesPaths, maxThreads, tasks, files, pwa,
                 swCalls, swDone, finishedCalls, finishedDone, watchdog, handleOpen, proc, exitCode>>

\* render.ts 89 to 92: the handler's read or write fails
ReadIndexFallbackFail ==
  /\ proc = "running"
  /\ pc = "readIndexFallback"
  /\ Reject(pc)
  /\ UNCHANGED <<routes, opts, host, indexHTML, app, flatPaths, routesPaths, maxThreads, tasks, files, pwa,
                 swCalls, swDone, finishedCalls, finishedDone, watchdog, handleOpen, proc, exitCode>>

\* ------------------------------------------------ render(): pool and dispatch
\* render.ts 95 to 101
CreatePool ==
  /\ proc = "running"
  /\ pc = "createPool"
  /\ maxThreads' = PoolSize(host.inspectorUrl, host.cpus, host.freeMiB)
  /\ pc' = "dispatch"
  /\ UNCHANGED <<routes, opts, host, indexHTML, app, flatPaths, failedAt, routesPaths, tasks, files, pwa,
                 swCalls, swDone, finishedCalls, finishedDone, watchdog, handleOpen, proc, exitCode>>

\* a variant of DispatchedTasks that leaves the last route out
DispatchedTasksButLast(paths) ==
  [i \in 1..(Len(paths) - 1) |-> NewTask(paths[i], Context(opts.dirStyle, indexHTML))]

\* render.ts 103 to 114: routesPaths.map(route => pool.run(...)), one task
\* per route, all submitted before render() awaits
DispatchedTasks(paths) ==
  [i \in 1..Len(paths) |-> NewTask(paths[i], Context(opts.dirStyle, indexHTML))]

Dispatch ==
  /\ proc = "running"
  /\ pc = "dispatch"
  /\ tasks' = DispatchedTasks(routesPaths)
  /\ pc' = "awaitAll"
  /\ UNCHANGED <<routes, opts, host, indexHTML, app, flatPaths, failedAt, routesPaths, maxThreads, files, pwa,
                 swCalls, swDone, finishedCalls, finishedDone, watchdog, handleOpen, proc, exitCode>>

\* a variant of AllFulfilled that is content with the first fulfilled task
AnyFulfilled(ts) == \E i \in DOMAIN ts : ts[i].st = "fulfilled"

\* Promise.all (render.ts 102): fulfilled when every task is; rejected as soon
\* as one is
AllFulfilled(ts) == \A i \in DOMAIN ts : ts[i].st = "fulfilled"
SomeRejected(ts) == \E i \in DOMAIN ts : ts[i].st = "rejected"

AwaitAllResolve ==
  /\ proc = "running"
  /\ pc = "awaitAll"
  /\ AllFulfilled(tasks)
  /\ pc' = "generateSW"
  /\ UNCHANGED <<routes, opts, host, indexHTML, app, flatPaths, failedAt, routesPaths, maxThreads, tasks, files, pwa,
                 swCalls, swDone, finishedCalls, finishedDone, watchdog, handleOpen, proc, exitCode>>

AwaitAllReject ==
  /\ proc = "running"
  /\ pc = "awaitAll"
  /\ SomeRejected(tasks)
  /\ Reject(pc)
  /\ UNCHANGED <<routes, opts, host, indexHTML, app, flatPaths, routesPaths, maxThreads, tasks, files, pwa,
                 swCalls, swDone, finishedCalls, finishedDone, watchdog, handleOpen, proc, exitCode>>

\* --------------------------------------------------- the page-render worker
TaskVarsUnchanged ==
  UNCHANGED <<routes, opts, host, indexHTML, app, flatPaths, pc, failedAt, routesPaths, maxThreads, pwa,
              swCalls, swDone, finishedCalls, finishedDone, watchdog, handleOpen, proc, exitCode>>

NumOccupied == Cardinality({i \in DOMAIN tasks : Occupies(tasks[i])})

\* the pool hands its oldest queued task to a free thread
MayStart(i) ==
  /\ tasks[i].st = "queued"
  /\ \A j \in 1..(i - 1) : tasks[j].st # "queued"
  /\ NumOccupied < maxThreads

TaskStart(i) ==
  /\ proc = "running"
  /\ MayStart(i)
  /\ tasks' = [tasks EXCEPT ![i].st = "import"]
  /\ files' = files
  /\ TaskVarsUnchanged

\* renderWorker.ts 28 to 35
TaskFilename(i) ==
  /\ proc = "running"
  /\ tasks[i].st = "filename"
  /\ tasks' = [tasks EXCEPT ![i].fname = filename(tasks[i].route, tasks[i].ctx.dirStyle),
                            ![i].st = NextStep("filename", FALSE)]
  /\ files' = files
  /\ TaskVarsUnchanged

\* renderWorker.ts 37 to 38: the factory returns the application, with or
\* without a router
TaskCreateApp(i) ==
  /\ proc = "running"
  /\ tasks[i].st = "createApp"
  /\ tasks' = [tasks EXCEPT ![i].hasApp = TRUE,
                            ![i].router = app.router,
                            ![i].st = NextStep("createApp", app.router)]
  /\ files' = files
  /\ TaskVarsUnchanged

\* the steps of renderWorker.ts 26 to 69 that only hand their result on
PassSteps ==
  {"import", "routerPush", "routerReady", "renderToString", "jsdom",
   "preload", "head", "serialize", "format", "ensureDir"}

TaskAdvance(i) ==
  /\ proc = "running"
  /\ tasks[i].st \in PassSteps
  /\ tasks' = [tasks EXCEPT ![i].st = NextStep(tasks[i].st, tasks[i].router)]
  /\ files' = files
  /\ TaskVarsUnchanged

\* renderWorker.ts 51: the fragment and the initial state are spliced into
\* the index template
TaskRenderHTML(i) ==
  /\ proc = "running"
  /\ tasks[i].st = "renderHTML"
  /\ tasks' = [tasks EXCEPT ![i].html = renderHTML(tasks[i].ctx.indexHTML, app.html, app.state),
                            ![i].st = NextStep("renderHTML", tasks[i].router)]
  /\ files' = files
  /\ TaskVarsUnchanged

\* renderWorker.ts 70
TaskWrite(i) ==
  /\ proc = "running"
  /\ tasks[i].st = "writeFile"
  /\ files' = files \cup {Join(OutDir, tasks[i].fname)}
  /\ tasks' = [tasks EXCEPT ![i].wrote = TRUE,
                            ![i].st = NextStep("writeFile", tasks[i].router)]
  /\ TaskVarsUnchanged

\* renderWorker.ts 72 to 81
TaskCleanup(i) ==
  /\ proc = "running"
  /\ tasks[i].st = "cleanup"
  /\ tasks' = [tasks EXCEPT ![i].disposed = TRUE,
                            ![i].st = NextStep("cleanup", tasks[i].router)]
  /\ files' = files
  /\ TaskVarsUnchanged

\* the task after its try block threw `err` (renderWorker.ts 82 to 85): the
\* error is logged with the route and the task returns, or the catch block
\* itself throws and the task rejects
Caught(t, err) ==
  IF CatchLogs(err)
    THEN [t EXCEPT !.logged = TRUE, !.st = "fulfilled"]
    ELSE [t EXCEPT !.st = "rejected"]

ThrownBy(st) == IF st \in AppSteps THEN {"Error", "nullish"} ELSE {"Error"}

TaskThrow(i) ==
  /\ proc = "running"
  /\ tasks[i].st \in ThrowSteps
  /\ \E err \in ThrownBy(tasks[i].st) :
       tasks' = [tasks EXCEPT ![i] = Caught(tasks[i], err)]
  /\ files' = files
  /\ TaskVarsUnchanged

\* an awaited promise of the application never settles
TaskHang(i) ==
  /\ proc = "running"
  /\ tasks[i].st \in HangSteps
  /\ tasks' = [tasks EXCEPT ![i].st = "hung"]
  /\ files' = files
  /\ TaskVarsUnchanged

\* ------------------------------------------------- render(): after the batch
\* render.ts 120 to 123
FindPwa ==
  /\ proc = "running"
  /\ pc = "generateSW"
  /\ \E present \in BOOLEAN :
       IF present
         THEN /\ pwa' = "present"
              /\ swCalls' = swCalls + 1
              /\ pc' = "awaitSW"
         ELSE /\ pwa' = "absent"
              /\ swCalls' = swCalls
              /\ pc' = "onFinished"
  /\ UNCHANGED <<routes, opts, host, indexHTML, app, flatPaths, failedAt, routesPaths, maxThreads, tasks, files,
                 swDone, finishedCalls, finishedDone, watchdog, handleOpen, proc, exitCode>>

SWResolve ==
  /\ proc = "running"
  /\ pc = "awaitSW"
  /\ swDone' = TRUE
  /\ pc' = "onFinished"
  /\ UNCHANGED <<routes, opts, host, indexHTML, app, flatPaths, failedAt, routesPaths, maxThreads, tasks, files, pwa,
                 swCalls, finishedCalls, finishedDone, watchdog, handleOpen, proc, exitCode>>

SWReject ==
  /\ proc = "running"
  /\ pc = "awaitSW"
  /\ Reject("generateSW")
  /\ UNCHANGED <<routes, opts, host, indexHTML, app, flatPaths, routesPaths, maxThreads, tasks, files, pwa,
                 swCalls, swDone, finishedCalls, finishedDone, watchdog, handleOpen, proc, exitCode>>

\* generateSW() never settles and keeps the event loop busy
SWHang ==
  /\ proc = "running"
  /\ pc = "awaitSW"
  /\ pc' = "hungSW"
  /\ UNCHANGED <<routes, opts, host, indexHTML, app, flatPaths, failedAt, routesPaths, maxThreads, tasks, files, pwa,
                 swCalls, swDone, finishedCalls, finishedDone, watchdog, handleOpen, proc, exitCode>>

\* render.ts 128
CallOnFinished ==
  /\ proc = "running"
  /\ pc = "onFinished"
  /\ IF opts.onFinished
       THEN /\ finishedCalls' = finishedCalls + 1
            /\ pc' = "awaitFinished"
       ELSE /\ finishedCalls' = finishedCalls
            /\ pc' = "arm"
  /\ UNCHANGED <<routes, opts, host, indexHTML, app, flatPaths, failedAt, routesPaths, maxThreads, tasks, files, pwa,
                 swCalls, swDone, finishedDone, watchdog, handleOpen, proc, exitCode>>

FinishedResolve ==
  /\ proc = "running"
  /\ pc = "awaitFinished"
  /\ finishedDone' = TRUE
  /\ pc' = "arm"
  /\ UNCHANGED <<routes, opts, host, indexHTML, app, flatPaths, failedAt, routesPaths, maxThreads, tasks, files, pwa,
                 swCalls, swDone, finishedCalls, watchdog, handleOpen, proc, exitCode>>

FinishedReject ==
  /\ proc = "running"
  /\ pc = "awaitFinished"
  /\ Reject("onFinished")
  /\ UNCHANGED <<routes, opts, host, indexHTML, app, flatPaths, routesPaths, maxThreads, tasks, files, pwa,
                 swCalls, swDone, finishedCalls, finishedDone, watchdog, handleOpen, proc, exitCode>>

\* onFinished() never settles and keeps the event loop busy
FinishedHang ==
  /\ proc = "running"
  /\ pc = "awaitFinished"
  /\ pc' = "hungFinished"
  /\ UNCHANGED <<routes, opts, host, indexHTML, app, flatPaths, failedAt, routesPaths, maxThreads, tasks, files, pwa,
                 swCalls, swDone, finishedCalls, finishedDone, watchdog, handleOpen, proc, exitCode>>

\* render.ts 131 to 137: the timer is armed and render() returns; whether
\* anything else still holds the event loop open is the host's
ArmWatchdog ==
  /\ proc = "running"
  /\ pc = "arm"
  /\ watchdog' = TRUE
  /\ handleOpen' \in BOOLEAN
  /\ pc' = "returned"
  /\ UNCHANGED <<routes, opts, host, indexHTML, app, flatPaths, failedAt, routesPaths, maxThreads, tasks, files, pwa,
                 swCalls, swDone, finishedCalls, finishedDone, proc, exitCode>>

\* ------------------------------------------------------------ the process
\* a variant of EventLoopHeld for a timer that was not unref'd
EventLoopHeldByTimer == handleOpen \/ watchdog

\* what keeps the process alive once render() has returned; the timer does
\* not, because of timeout.unref() (render.ts 136)
EventLoopHeld == handleOpen

\* what held the event loop open lets go of it before the delay elapses
ReleaseHandle ==
  /\ proc = "running"
  /\ pc = "returned"
  /\ handleOpen
  /\ handleOpen' = FALSE
  /\ UNCHANGED <<routes, opts, host, indexHTML, app, flatPaths, pc, failedAt, routesPaths, maxThreads, tasks, files, pwa,
                 swCalls, swDone, finishedCalls, finishedDone, watchdog, proc, exitCode>>

\* render() has returned and nothing holds the event loop: the unref'd timer
\* (render.ts 136) does not keep the process alive
NaturalExit ==
  /\ proc = "running"
  /\ pc = "returned"
  /\ ~EventLoopHeld
  /\ proc' = "exited"
  /\ exitCode' = 0
  /\ UNCHANGED <<routes, opts, host, indexHTML, app, flatPaths, pc, failedAt, routesPaths, maxThreads, tasks, files, pwa,
                 swCalls, swDone, finishedCalls, finishedDone, watchdog, handleOpen>>

\* render.ts 132 to 135: the delay elapses with the process still running
ForceExit ==
  /\ proc = "running"
  /\ watchdog
  /\ EventLoopHeld
  /\ proc' = "forced"
  /\ exitCode' = 0
  /\ UNCHANGED <<routes, opts, host, indexHTML, app, flatPaths, pc, failedAt, routesPaths, maxThreads, tasks, files, pwa,
                 swCalls, swDone, finishedCalls, finishedDone, watchdog, handleOpen>>

\* render() rejected: its caller (not part of the modelled sources) aborts
\* the process with a diagnostic
Abort ==
  /\ proc = "running"
  /\ pc = "rejected"
  /\ proc' = "aborted"
  /\ exitCode' = 1
  /\ UNCHANGED <<routes, opts, host, indexHTML, app, flatPaths, pc, failedAt, routesPaths, maxThreads, tasks, files, pwa,
                 swCalls, swDone, finishedCalls, finishedDone, watchdog, handleOpen>>

\* ---------------------------------------------------------- specifications
TaskNext(i) ==
  \/ TaskStart(i)
  \/ TaskFilename(i)
  \/ TaskCreateApp(i)
  \/ TaskAdvance(i)
  \/ TaskRenderHTML(i)
  \/ TaskWrite(i)
  \/ TaskCleanup(i)
  \/ TaskThrow(i)
  \/ TaskHang(i)

Next ==
  \/ CtxStep
  \/ CtxFail
  \/ ResolveRoutes
  \/ IncludedRoutesFail
  \/ ReadIndex
  \/ ReadIndexMiss
  \/ ReadIndexFallback
  \/ ReadIndexFallbackFail
  \/ CreatePool
  \/ Dispatch
  \/ AwaitAllResolve
  \/ AwaitAllReject
  \/ FindPwa
  \/ SWResolve
  \/ SWReject
  \/ SWHang
  \/ CallOnFinished
  \/ FinishedResolve
  \/ FinishedReject
  \/ FinishedHang
  \/ ArmWatchdog
  \/ ReleaseHandle
  \/ NaturalExit
  \/ ForceExit
  \/ Abort
  \/ \E i \in DOMAIN tasks : TaskNext(i)

\* the supervisor and its workers, over the route tables of MainRoutes
Spec == Init /\ [][Next]_vars

\* the supervisor with the event loop's fairness: a step that can be taken
\* is taken; over one route table and the default options but for
\* includedRoutes
LiveRoutes == {Defined(<<Node(<<"/", "a">>, <<>>), Node(<<"/", "a", "/">>, <<>>)>>)}

LiveOpts ==
  [ includeAllRoutes : {FALSE}, includedRoutes : {"default", "none"},
    dirStyle : {"flat"}, onFinished : {TRUE} ]

LiveSpec == InitWith(LiveRoutes, LiveOpts) /\ [][Next]_vars /\ WF_vars(Next)

\* render.ts 58 to 63 alone, over every route table of at most MaxNodes nodes
RoutesOpts ==
  [ includeAllRoutes : BOOLEAN, includedRoutes : {"default", "none", "twice"},
    dirStyle : {"flat"}, onFinished : {FALSE} ]

InitRoutes ==
  /\ \/ routes = Undefined
     \/ \E n \in 0..MaxNodes : routes \in RouteTables(n)
  /\ opts \in RoutesOpts
  /\ host = OneHost
  /\ indexHTML = MainIndexHTML
  /\ app = OneApp
  /\ flatPaths = <<>>
  /\ pc = "routes"
  /\ failedAt = "none"
  /\ routesPaths = <<>>
  /\ maxThreads = 0
  /\ tasks = <<>>
  /\ files = {}
  /\ pwa = "unknown"
  /\ swCalls = 0
  /\ swDone = FALSE
  /\ finishedCalls = 0
  /\ finishedDone = FALSE
  /\ watchdog = FALSE
  /\ handleOpen = FALSE
  /\ proc = "running"
  /\ exitCode = -1

NextRoutes == ResolveRoutes

SpecRoutes == InitRoutes /\ [][NextRoutes]_vars

\* renderWorker.ts 28 to 35 alone, over every route string of at most
\* MaxRouteLen tokens: one task that has loaded the entry module
RouteTokens == {"/", "a", "."}

RouteStrings == UNION { [1..n -> RouteTokens] : n \in 1..MaxRouteLen }

InitFile ==
  /\ routes = Undefined
  /\ opts \in [ includeAllRoutes : {FALSE}, includedRoutes : {"identity"},
                dirStyle : {"flat", "nested"}, onFinished : {FALSE} ]
  /\ host = OneHost
  /\ indexHTML = MainIndexHTML
  /\ app = OneApp
  /\ flatPaths = <<Slash>>
  /\ pc = "awaitAll"
  /\ failedAt = "none"
  /\ maxThreads = 1
  /\ \E r \in RouteStrings :
       /\ routesPaths = <<r>>
       /\ tasks = <<[NewTask(r, Context(opts.dirStyle, indexHTML)) EXCEPT !.st = "filename"]>>
  /\ files = {}
  /\ pwa = "unknown"
  /\ swCalls = 0
  /\ swDone = FALSE
  /\ finishedCalls = 0
  /\ finishedDone = FALSE
  /\ watchdog = FALSE
  /\ handleOpen = FALSE
  /\ proc = "running"
  /\ exitCode = -1

NextFile == \E i \in DOMAIN tasks : TaskFilename(i)

SpecFile == InitFile /\ [][NextFile]_vars

\* render.ts 95 to 101 alone, on every host of at most MaxCpus CPUs and at
\* most MaxFreeMiB MiB of free memory
PoolHosts == [ inspectorUrl : BOOLEAN, cpus : 0..MaxCpus, freeMiB : 0..MaxFreeMiB ]

InitPool ==
  /\ routes = Undefined
  /\ opts \in [ includeAllRoutes : {FALSE}, includedRoutes : {"default"},
                dirStyle : {"flat"}, onFinished : {FALSE} ]
  /\ host \in PoolHosts
  /\ indexHTML = MainIndexHTML
  /\ app = OneApp
  /\ flatPaths = <<Slash>>
  /\ pc = "createPool"
  /\ failedAt = "none"
  /\ routesPaths = <<Slash>>
  /\ maxThreads = 0
  /\ tasks = <<>>
  /\ files = {}
  /\ pwa = "unknown"
  /\ swCalls = 0
  /\ swDone = FALSE
  /\ finishedCalls = 0
  /\ finishedDone = FALSE
  /\ watchdog = FALSE
  /\ handleOpen = FALSE
  /\ proc = "running"
  /\ exitCode = -1

NextPool == CreatePool

SpecPool == InitPool /\ [][NextPool]_vars

\* renderWorker.ts 51 with 87 to 96 alone: one task that has rendered the
\* application, over every index template of at most MaxTplLen tokens, with
\* and without the mount point, and every initial state of at most
\* MaxStateLen tokens
TplTokens == {"<p>", Mount}
Templates == UNION { [1..n -> TplTokens] : n \in 0..MaxTplLen }

StateTokens == {"s", "$$", "$&"}
InitialStates ==
  {NoState} \cup { State(t) : t \in UNION { [1..n -> StateTokens] : n \in 0..MaxStateLen } }

HtmlApps == [ html : {<<>>, <<"<p>">>}, state : InitialStates, router : {FALSE} ]

InitHtml ==
  /\ routes = Undefined
  /\ opts \in [ includeAllRoutes : {FALSE}, includedRoutes : {"default"},
                dirStyle : {"flat"}, onFinished : {FALSE} ]
  /\ host = OneHost
  /\ indexHTML \in Templates
  /\ app \in HtmlApps
  /\ flatPaths = <<Slash>>
  /\ pc = "awaitAll"
  /\ failedAt = "none"
  /\ routesPaths = <<Slash>>
  /\ maxThreads = 1
  /\ tasks = <<[NewTask(Slash, Context(opts.dirStyle, indexHTML))
                  EXCEPT !.st = "renderHTML", !.fname = filename(Slash, opts.dirStyle),
                         !.hasApp = TRUE]>>
  /\ files = {}
  /\ pwa = "unknown"
  /\ swCalls = 0
  /\ swDone = FALSE
  /\ finishedCalls = 0
  /\ finishedDone = FALSE
  /\ watchdog = FALSE
  /\ handleOpen = FALSE
  /\ proc = "running"
  /\ exitCode = -1

NextHtml == \E i \in DOMAIN tasks : TaskRenderHTML(i)

SpecHtml == InitHtml /\ [][NextHtml]_vars

\* ------------------------------------------------------------------ claims
\* the try block of task t threw
Threw(t) == t.logged \/ t.st = "rejected"

WrittenPath(t) == Join(OutDir, t.fname)

\* C1: when some routes fail during rendering, the batch is not failed, and
\* once render() has returned every other route's file is written and
\* onFinished has been invoked exactly once.
C1_FailuresIsolated ==
  (\E i \in DOMAIN tasks : Threw(tasks[i])) =>
    /\ failedAt # "awaitAll"
    /\ pc = "returned" =>
         /\ \A i \in DOMAIN tasks :
              ~Threw(tasks[i]) => tasks[i].wrote /\ WrittenPath(tasks[i]) \in files
         /\ opts.onFinished => finishedCalls = 1

\* C2: the render process always eventually terminates, whatever hangs.
C2_Terminates == <>(proc # "running")

\* C3: the worker unit never throws out of its boundary: no task's promise
\* rejects, whatever was thrown in its try block.
C3_NeverRejects == \A i \in DOMAIN tasks : tasks[i].st # "rejected"

\* C4: no two tasks of one batch write the same file.
C4_DistinctFiles ==
  \A i, j \in DOMAIN tasks :
    (i # j /\ tasks[i].wrote /\ tasks[j].wrote)
      => WrittenPath(tasks[i]) # WrittenPath(tasks[j])

NoDuplicates(arr) == \A i, j \in DOMAIN arr : arr[i] = arr[j] => i = j
HasMarker(p) == Includes(p, ":") \/ Includes(p, "*")
RoutesResolved == pc = "critters"

\* C5 as stated: the dispatched list has no duplicates and, unless
\* includeAllRoutes is set, no entry with ':' or '*'.
C5_AsStated ==
  RoutesResolved =>
    /\ NoDuplicates(routesPaths)
    /\ ~opts.includeAllRoutes => \A i \in DOMAIN routesPaths : ~HasMarker(routesPaths[i])

\* C5, amended: the dispatched list has no duplicates; with includeAllRoutes
\* every flattened path is dispatched; without it the includedRoutes function
\* decides, and the default one keeps exactly the paths without ':' and '*'.
C5_Dispatched ==
  RoutesResolved =>
    /\ NoDuplicates(routesPaths)
    /\ opts.includeAllRoutes => Range(routesPaths) = Range(flatPaths)
    /\ (~opts.includeAllRoutes /\ opts.includedRoutes = "default") =>
         Range(routesPaths) = {p \in Range(flatPaths) : ~HasMarker(p)}
    /\ (~opts.includeAllRoutes /\ opts.includedRoutes = "none") => routesPaths = <<>>

C5_Witness ==
  /\ RoutesResolved
  /\ ~opts.includeAllRoutes
  /\ opts.includedRoutes = "default"
  /\ \E p \in Range(flatPaths) : Includes(p, ":")
  /\ \E p \in Range(flatPaths) : Includes(p, "*")
  /\ routesPaths # <<>>

\* the flattening the data model describes: a route without a path adds no
\* entry and hands the prefix it was given on to its children
RECURSIVE NearestLoop(_, _, _)
NearestLoop(rs, prefix, paths) ==
  IF rs = <<>> THEN paths
  ELSE LET route == Head(rs)
           path == IF route.path # Empty THEN RoutePath(route, prefix) ELSE prefix
           added == IF route.path # Empty THEN SetAdd(paths, path) ELSE paths
           below == NearestLoop(route.children, StripTrailingSlash(path), added)
       IN NearestLoop(Tail(rs), prefix, below)

\* C6: a route without a path contributes no entry, and its children are
\* resolved against the nearest ancestor that has a path.
C6_NearestAncestor ==
  (RoutesResolved /\ routes.defined) =>
    flatPaths = NearestLoop(routes.list, Empty, <<>>)

RECURSIVE StripTrailingSlashes(_)
StripTrailingSlashes(s) ==
  IF EndsWithSlash(s) THEN StripTrailingSlashes(SubSeq(s, 1, Len(s) - 1)) ELSE s

\* C7: for a top-level route with path P and a child with the relative path
\* C, the flattened set holds P without its trailing slashes, one '/', then C;
\* a child whose path is absolute is in the set as it stands.
C7_ParentChild ==
  (RoutesResolved /\ routes.defined) =>
    \A i \in DOMAIN routes.list :
      LET parent == routes.list[i] IN
      \A k \in DOMAIN parent.children :
        LET child == parent.children[k] IN
        (parent.path # Empty /\ child.path # Empty) =>
          IF StartsWithSlash(child.path)
            THEN child.path \in Range(flatPaths)
            ELSE StripTrailingSlashes(parent.path) \o Slash \o child.path
                   \in Range(flatPaths)

\* a route whose segments are all names: no empty, '.' or '..' segment
CleanRoute(r) ==
  /\ StartsWithSlash(r)
  /\ Len(r) > 1
  /\ \A seg \in Range(Split(Tail(r))) : seg # Empty /\ seg # Dot /\ seg # DotDot

\* C8: with 'flat' the root maps to index.html and /a/b to a/b.html; with
\* 'nested' every route, the root too, maps to <route>/index.html.
C8_FileNames ==
  \A i \in DOMAIN tasks :
    tasks[i].st = "createApp" =>
      LET r == routesPaths[i]
          f == tasks[i].fname
      IN /\ r = Slash => f = <<"index", ".html">>
         /\ (CleanRoute(r) /\ opts.dirStyle = "flat") => f = Tail(r) \o <<".html">>
         /\ (CleanRoute(r) /\ opts.dirStyle = "nested") =>
              f = Tail(r) \o <<"/", "index", ".html">>

C8_Witness ==
  \E i \in DOMAIN tasks :
    /\ tasks[i].st = "createApp"
    /\ routesPaths[i] = <<"/", "a", "/", "a">>
    /\ opts.dirStyle = "nested"
    /\ tasks[i].fname = <<"a", "/", "a", "/", "index", ".html">>

ContextSteps == PlainSteps \cup {"routes", "readIndexFallback"}

\* C9: a failure while the batch context is resolved rejects render() before
\* the pool exists: no task, no page file, no hook, then or later.
C9_ContextFailureAborts ==
  failedAt \in ContextSteps =>
    /\ pc = "rejected"
    /\ maxThreads = 0
    /\ tasks = <<>>
    /\ files = {}
    /\ swCalls = 0
    /\ finishedCalls = 0
    /\ ~watchdog

C9_Witness ==
  /\ failedAt = "readManifest"
  /\ pc = "rejected"
  /\ Len(routesPaths) >= 2
  /\ tasks = <<>>

\* C10: generateSW is called at most once, only when the plugin has it and
\* only after every dispatched task has settled; onFinished is called at most
\* once, after generateSW has resolved; the watchdog is armed only after both
\* have been called and have resolved.
C10_HookOrder ==
  /\ swCalls <= 1
  /\ finishedCalls <= 1
  /\ pwa = "absent" => swCalls = 0
  /\ swCalls = 1 =>
       /\ pwa = "present"
       /\ Len(tasks) = Len(routesPaths)
       /\ \A i \in DOMAIN tasks : Settled(tasks[i])
  /\ finishedCalls = 1 =>
       /\ opts.onFinished
       /\ pwa # "unknown"
       /\ pwa = "present" => swDone
       /\ \A i \in DOMAIN tasks : Settled(tasks[i])
  /\ watchdog =>
       /\ pwa # "unknown"
       /\ pwa = "present" => (swCalls = 1 /\ swDone)
       /\ opts.onFinished => (finishedCalls = 1 /\ finishedDone)

C10_Witness ==
  /\ watchdog
  /\ pwa = "present"
  /\ swCalls = 1
  /\ finishedCalls = 1
  /\ Len(tasks) >= 2

\* C11: the pool has one worker whenever a debugger is attached; otherwise it
\* has max(1, floor(min(cpus / 2, free memory / 1.1 GiB))) workers: the
\* largest number n for which n workers fit both half the CPUs and the free
\* memory, and one worker when not even one fits. So it has at least one, and
\* no more than either limit when both limits are at least 1.
Fits(n) == 2 * n <= host.cpus /\ n * WorkerMemTenthsMiB <= 10 * host.freeMiB

C11_PoolSize ==
  maxThreads # 0 =>
    /\ maxThreads >= 1
    /\ host.inspectorUrl => maxThreads = 1
    /\ ~host.inspectorUrl =>
         IF Fits(1) THEN Fits(maxThreads) /\ ~Fits(maxThreads + 1)
         ELSE maxThreads = 1

C11_Witness ==
  /\ ~host.inspectorUrl
  /\ host.cpus = MaxCpus
  /\ maxThreads = 2
  /\ pc = "dispatch"

\* render() has run the dispatch of render.ts 102 to 115
BeforeDispatch ==
  PlainSteps \cup {"routes", "readIndex", "readIndexFallback", "createPool", "dispatch"}

HasDispatched ==
  /\ pc \notin BeforeDispatch
  /\ pc = "rejected" => failedAt \in {"awaitAll", "generateSW", "onFinished"}

\* C12: once render() has dispatched, there is exactly one task per entry of
\* the deduplicated route list, all present at once whether or not any has
\* finished; every task carries the same context (that of render()) and its
\* own route; at most maxThreads tasks run at a time, and a task still in
\* the queue is behind every task that has started.
C12_Dispatch ==
  /\ ~HasDispatched => tasks = <<>>
  /\ HasDispatched =>
       /\ Len(tasks) = Len(routesPaths)
       /\ \A i \in DOMAIN tasks :
            /\ tasks[i].route = routesPaths[i]
            /\ tasks[i].ctx = Context(opts.dirStyle, indexHTML)
       /\ \A i, j \in DOMAIN tasks : i # j => tasks[i].route # tasks[j].route
       /\ NumOccupied <= maxThreads
       /\ \A i, j \in DOMAIN tasks :
            (i < j /\ tasks[i].st = "queued") => tasks[j].st = "queued"

C12_Witness ==
  /\ HasDispatched
  /\ Len(tasks) = 3
  /\ maxThreads = 2
  /\ NumOccupied = 2
  /\ tasks[3].st = "queued"
  /\ \A i \in DOMAIN tasks : ~Settled(tasks[i])

\* C13: once the watchdog is armed and render() has returned, a process that
\* nothing else holds open can exit normally at once and cannot be forced;
\* a process that something still holds open cannot exit normally and is
\* forced to exit when the delay elapses. A forced exit happens only with the
\* watchdog armed and the process still held open, and its status is 0.
C13_Watchdog ==
  /\ (watchdog /\ proc = "running" /\ ~handleOpen) =>
       (ENABLED NaturalExit /\ ~ENABLED ForceExit)
  /\ (watchdog /\ proc = "running" /\ handleOpen) =>
       (ENABLED ForceExit /\ ~ENABLED NaturalExit)
  /\ proc = "forced" => (watchdog /\ handleOpen /\ exitCode = 0)
  /\ proc = "exited" => (watchdog /\ ~handleOpen /\ exitCode = 0)

C13_Witness ==
  /\ proc = "forced"
  /\ watchdog
  /\ handleOpen
  /\ exitCode = 0

\* task t has spliced its page (renderWorker.ts 51)
Spliced(t) ==
  t.st \in {"jsdom", "preload", "head", "serialize", "format", "ensureDir", "writeFile",
            "cleanup"} \/ t.wrote

\* the page the claim describes: the template with its mount point filled
\* with the application's markup, followed by script, and otherwise unchanged
PageWith(tpl, markup, script) ==
  LET i == CHOOSE k \in DOMAIN tpl : tpl[k] = Mount /\ \A j \in 1..(k - 1) : tpl[j] # Mount
  IN SubSeq(tpl, 1, i - 1) \o <<MountOpen>> \o markup \o <<MountClose>> \o script
       \o SubSeq(tpl, i + 1, Len(tpl))

\* C14: for a template that has the mount point, the page of a task whose
\* application supplies a (non-empty) initial state has, right after the
\* filled mount point, one script that assigns exactly the serialized state,
\* and the page of a task without initial state has no such script.
C14_StateScript ==
  \A i \in DOMAIN tasks :
    (Spliced(tasks[i]) /\ Mount \in Range(tasks[i].ctx.indexHTML)) =>
      tasks[i].html =
        PageWith(tasks[i].ctx.indexHTML, app.html,
                 IF app.state.defined /\ app.state.text # <<>>
                 THEN <<ScriptOpen>> \o app.state.text \o <<ScriptClose>>
                 ELSE <<>>)

\* C15: every task run that has ended either wrote its file and logged no
\* error, or logged an error (for its own route) and wrote nothing: never
\* both, never neither.
C15_OneOutcome ==
  \A i \in DOMAIN tasks :
    Settled(tasks[i]) =>
      \/ tasks[i].wrote /\ ~tasks[i].logged /\ WrittenPath(tasks[i]) \in files
      \/ ~tasks[i].wrote /\ tasks[i].logged

\* C16: every task run that has ended after it obtained an application
\* instance, whether it succeeded or failed, has run the dispose step.
C16_Disposed ==
  \A i \in DOMAIN tasks :
    (Settled(tasks[i]) /\ tasks[i].hasApp) => tasks[i].disposed

\* the step that must just have succeeded when step st starts, as the claim
\* orders them: splice, parse, preload-inject, head-merge, serialize, format,
\* (the output directory,) write
StartsAfter(st, router) ==
  CASE st = "renderToString" -> IF router THEN "routerReady" ELSE "createApp"
    [] st = "renderHTML" -> "renderToString"
    [] st = "jsdom" -> "renderHTML"
    [] st = "preload" -> "jsdom"
    [] st = "head" -> "preload"
    [] st = "serialize" -> "head"
    [] st = "format" -> "serialize"
    [] st = "ensureDir" -> "format"
    [] st = "writeFile" -> "ensureDir"

OrderedSteps ==
  {"renderToString", "renderHTML", "jsdom", "preload", "head", "serialize", "format",
   "ensureDir", "writeFile"}

\* C17: in every step of a behaviour and for every task, one of the steps
\* render, splice, parse, preload-inject, head-merge, serialize, format,
\* write starts only as the step before it succeeds (rendering, with a
\* router, as the wait for the navigation succeeds); the file is written
\* only by the write step of a task that has logged no failure; and a task
\* that has ended starts nothing more.
C17_StepOrder ==
  [][ \A i \in DOMAIN tasks \cap DOMAIN tasks' :
        LET t == tasks[i]
            u == tasks'[i]
        IN /\ (u.st # t.st /\ u.st \in OrderedSteps) => t.st = StartsAfter(u.st, u.router)
           /\ (u.wrote /\ ~t.wrote) => (t.st = "writeFile" /\ ~t.logged /\ ~u.logged)
           /\ Settled(t) => u = t ]_vars

C17_Witness ==
  \E i \in DOMAIN tasks :
    /\ tasks[i].router
    /\ tasks[i].wrote
    /\ tasks[i].st = "cleanup"
    /\ tasks[i].html # <<>>

\* every route of the tree has a non-empty path
RECURSIVE AllHavePaths(_)
AllHavePaths(list) ==
  \A i \in DOMAIN list : list[i].path # Empty /\ AllHavePaths(list[i].children)

\* C18: for a route table whose top-level paths are absolute (and whose
\* routes all have a path), every path routesToPaths returns begins with
\* '/', also when a parent is the root '/' and its children are relative.
C18_Absolute ==
  ( /\ RoutesResolved
    /\ routes.defined
    /\ \A i \in DOMAIN routes.list : StartsWithSlash(routes.list[i].path)
    /\ AllHavePaths(routes.list) )
  => \A k \in DOMAIN flatPaths : StartsWithSlash(flatPaths[k])

\* C19: when generateSW() has failed after every page has settled, render()
\* is rejected, onFinished has not been called and the watchdog is not
\* armed, and none of that changes afterwards; when onFinished() has failed,
\* render() is rejected and the watchdog is not armed.
C19_HookFailure ==
  /\ failedAt = "generateSW" =>
       /\ pc = "rejected"
       /\ \A i \in DOMAIN tasks : Settled(tasks[i])
       /\ swCalls = 1 /\ ~swDone
       /\ finishedCalls = 0
       /\ ~watchdog
       /\ proc \notin {"exited", "forced"}
  /\ failedAt = "onFinished" =>
       /\ pc = "rejected"
       /\ \A i \in DOMAIN tasks : Settled(tasks[i])
       /\ finishedCalls = 1 /\ ~finishedDone
       /\ ~watchdog
       /\ proc \notin {"exited", "forced"}

C19_Witness ==
  /\ failedAt = "generateSW"
  /\ pc = "rejected"
  /\ opts.onFinished
  /\ Len(tasks) >= 2

\* C20 as stated: without a route table render() dispatches exactly one
\* task, for '/'.
C20_AsStated ==
  (~routes.defined /\ HasDispatched) => (Len(tasks) = 1 /\ tasks[1].route = Slash)

\* C20: without a route table routesToPaths returns exactly '/', and with
\* includeAllRoutes or the default inclusion predicate render() dispatches
\* exactly one task, for '/'. When the dispatched route list is empty, no
\* task is dispatched, the wait for the tasks does not fail, and a render()
\* that has returned has looked for the service-worker hook, called
\* generateSW once if the plugin has it, and called onFinished once if it
\* is supplied.
C20_Degenerate ==
  HasDispatched =>
    /\ ~routes.defined => flatPaths = <<Slash>>
    /\ (~routes.defined /\ (opts.includeAllRoutes \/ opts.includedRoutes = "default")) =>
         (Len(tasks) = 1 /\ tasks[1].route = Slash)
    /\ routesPaths = <<>> =>
         /\ tasks = <<>>
         /\ failedAt # "awaitAll"
         /\ pc \in {"returned", "arm"} =>
              /\ pwa # "unknown"
              /\ pwa = "present" => (swCalls = 1 /\ swDone)
              /\ opts.onFinished => (finishedCalls = 1 /\ finishedDone)
              /\ ~opts.onFinished => finishedCalls = 0

C20_Witness ==
  /\ ~routes.defined
  /\ ~opts.includeAllRoutes
  /\ opts.includedRoutes = "default"
  /\ Len(tasks) = 1
  /\ tasks[1].route = Slash
  /\ tasks[1].wrote
  /\ pc = "returned"

====
